---- MODULE Spec2Model ----
(* Threat scoring and automated response pipeline of TelecomSoc:            *)
(* ThreatAnalysisService (server/services/threatAnalysis.ts), the score     *)
(* provider analyzeThreatData (server/services/gemini.ts), the in-memory     *)
(* store MemStorage (server/storage.ts) and the operator routes that write   *)
(* the store (routes.ts).                                                    *)
(*                                                                           *)
(* Scores are held in thousandths: 5.0 is 5000, 8.5 is 8500. A value of      *)
(* Math.random() is held in thousandths too: 0.501 is 501.                   *)
(* Every async function runs atomically from one await to the next; a run's  *)
(* pc names the await it is suspended at.                                    *)
EXTENDS Integers, FiniteSets, Sequences, TLC

VARIABLES threats, actions, fraudCases, systemConfig, currentId, run,
          failures, patches, activityLog, detector, generator

vars == <<threats, actions, fraudCases, systemConfig, currentId, run,
          failures, patches, activityLog, detector, generator>>

\* The telecom_user_activity_log table and the state of a call of
\* AnomalyDetectionService.getStatisticalAnomalies.
Detection == <<activityLog, detector>>

\* The MockDataGenerator (mockData.ts 4-5: isRunning, interval) and the
\* runtime's table of active interval timers.  started counts the calls of
\* setInterval, which names the handle each of them returns.
NoTimer == 0
IdleGenerator ==
    [isRunning |-> FALSE, interval |-> NoTimer, timers |-> {}, started |-> 0]

\* The generator once registerRoutes has called start() (routes 12).
RunningGenerator ==
    [isRunning |-> TRUE, interval |-> 1, timers |-> {1}, started |-> 1]

\* ---------------------------------------------------------------- bounds
MaxEvents == 2
MaxFailures == 1
MaxPatches == 1
MaxEvaluations == 2

Events == 1 .. MaxEvents

\* Sampled values of Math.random(), in thousandths of [0, 1).
RandSamples == {500, 501, 850}

\* Answers the external service is sampled to give; the empty threatType
\* stands for a missing or empty one.
GeminiSamples ==
    {[threatScore |-> 5000, threatType |-> "call_fraud"],
     [threatScore |-> 7000, threatType |-> "call_fraud"]}
    \cup {[threatScore |-> 8500, threatType |-> t] :
              t \in {"sms_phishing", ""}}

Kinds == {"cdr", "sms", "user_behavior"}

\* Values a PATCH /api/system-config/:key body carries: a boolean, or no
\* value at all (configValue then is undefined).
ConfigValues == {"true", "false", "none"}

PolicyKeys == {"auto_block_critical", "auto_block_fraud", "sim_swap_manual"}

\* Status strings an operator request is sampled to carry.
PatchStatuses == {"analyzing", "blocked", "resolved", "false_positive", "closed"}

NoId == 0

\* The body the specification's end-to-end scenario gives its message record.
UrgentBody == "URGENT click here to verify your account"

\* Records handed to analyzeCDRRecord / analyzeSMSRecord: fromNumber, and the
\* duration of a CDRRecord or the message of an SMSRecord ("-" and -1 stand
\* for a field the record type does not have). An empty string is a field
\* the record lacks.
NoRecord == [fromNumber |-> "-", duration |-> -1, message |-> "-"]
CDRRecords ==
    {[fromNumber |-> f, duration |-> d, message |-> "-"] :
        f \in {"+1555", ""}, d \in {3, 60}}
SMSRecords ==
    {[fromNumber |-> f, duration |-> -1, message |-> m] :
        f \in {"+1555", ""}, m \in {UrgentBody, "hello", ""}}
RecordsOf(kind) ==
    IF kind = "cdr" THEN CDRRecords
    ELSE IF kind = "sms" THEN SMSRecords
    ELSE {NoRecord}

\* The records MockDataGenerator.generateMockCDR / generateMockSMS build, one
\* per kind: every field present.
MockRecord(kind) ==
    IF kind = "cdr" THEN [fromNumber |-> "+1555", duration |-> 60, message |-> "-"]
    ELSE IF kind = "sms" THEN [fromNumber |-> "+1555", duration |-> -1, message |-> "hello"]
    ELSE NoRecord
NoAnalysis == [threatScore |-> -1, threatType |-> "-"]

\* ------------------------------------------------------- pure functions

\* JavaScript truthiness of a configValue read through `?.configValue`.
Truthy(v) == v = "true"

\* The data argument analyzeThreatData receives from the three analyze*
\* methods is JSON.stringify(...): a string, whose message, duration and
\* activities properties are undefined. analysisType is not passed.
StringData == [message |-> "", duration |-> 0, activities |-> 0]
Undefined == "undefined"

\* JSON.stringify(record), as generateFallbackAnalysis reads it: a string has
\* no message, duration or activities property, whatever the record held.
JSONstringify(record) == StringData

\* message.toLowerCase().includes("click") || ...includes("urgent")
IncludesClickOrUrgent(message) == message \in {"click", "urgent", UrgentBody}

FallbackScore(analysisType, data, r0, r1) ==
    IF analysisType = "sms" /\ IncludesClickOrUrgent(data.message)
    THEN 7000 + 3 * r1
    ELSE IF analysisType = "cdr" /\ (data.duration > 3600 \/ data.duration < 5)
    THEN 6000 + 2 * r1
    ELSE IF analysisType = "user_behavior" /\ data.activities > 50
    THEN 8000 + 2 * r1
    ELSE 10 * r0

FallbackType(analysisType, data) ==
    IF analysisType = "sms" /\ IncludesClickOrUrgent(data.message)
    THEN "sms_phishing"
    ELSE IF analysisType = "cdr" /\ (data.duration > 3600 \/ data.duration < 5)
    THEN "call_fraud"
    ELSE IF analysisType = "user_behavior" /\ data.activities > 50
    THEN "sim_swap"
    ELSE "anomalous_traffic"

generateFallbackAnalysis(data, analysisType, r0, r1) ==
    [threatScore |-> FallbackScore(analysisType, data, r0, r1),
     threatType  |-> FallbackType(analysisType, data)]

scoresToSeverityStrict(score) ==
    IF score > 8500 THEN "critical"
    ELSE IF score > 7000 THEN "high"
    ELSE IF score > 5000 THEN "medium"
    ELSE "low"
scoresToSeverity(score) ==
    IF score >= 8500 THEN "critical"
    ELSE IF score >= 7000 THEN "high"
    ELSE IF score >= 5000 THEN "medium"
    ELSE "low"

\* The guard `analysis.threatScore > 5` of analyzeCDRRecord / analyzeSMSRecord
\* and `analysis.threatScore > 6` of analyzeUserBehavior.
CreatesThreatInclusive(kind, score) ==
    IF kind = "user_behavior" THEN score >= 6000 ELSE score >= 5000
CreatesThreatSix(kind, score) == score > 6000
CreatesThreat(kind, score) ==
    IF kind = "user_behavior" THEN score > 6000 ELSE score > 5000

\* `analysis.threatType || 'call_fraud'`, `|| 'sms_phishing'`, and the fixed
\* 'sim_swap' of analyzeUserBehavior.
InsertThreatType(kind, analysisType) ==
    IF kind = "user_behavior" THEN "sim_swap"
    ELSE IF analysisType # "" THEN analysisType
    ELSE IF kind = "cdr" THEN "call_fraud" ELSE "sms_phishing"

\* Lines 130-142 of handleAutoResponse: the first matching rule.
PolicyFraudFirst(threat, autoBlockCritical, autoBlockFraud, simSwapManual) ==
    IF threat.threatType = "call_fraud" /\ Truthy(autoBlockFraud)
    THEN [shouldAutoBlock |-> TRUE, actionType |-> "block_phone"]
    ELSE IF threat.severity = "critical" /\ Truthy(autoBlockCritical)
    THEN [shouldAutoBlock |-> TRUE,
          actionType |-> IF threat.threatType = "sms_phishing"
                         THEN "block_phone" ELSE "block_ip"]
    ELSE IF threat.threatType = "sim_swap" /\ ~Truthy(simSwapManual)
    THEN [shouldAutoBlock |-> TRUE, actionType |-> "create_case"]
    ELSE [shouldAutoBlock |-> FALSE, actionType |-> ""]
Policy(threat, autoBlockCritical, autoBlockFraud, simSwapManual) ==
    IF threat.severity = "critical" /\ Truthy(autoBlockCritical)
    THEN [shouldAutoBlock |-> TRUE,
          actionType |-> IF threat.threatType = "sms_phishing"
                         THEN "block_phone" ELSE "block_ip"]
    ELSE IF threat.threatType = "call_fraud" /\ Truthy(autoBlockFraud)
    THEN [shouldAutoBlock |-> TRUE, actionType |-> "block_phone"]
    ELSE IF threat.threatType = "sim_swap" /\ ~Truthy(simSwapManual)
    THEN [shouldAutoBlock |-> TRUE, actionType |-> "create_case"]
    ELSE [shouldAutoBlock |-> FALSE, actionType |-> ""]

\* ------------------------------------------------------------ MemStorage

\* MemStorage.createThreat: the record stored under the fresh id.
StoredThreat(id, insertThreat) ==
    [id         |-> id,
     threatType |-> insertThreat.threatType,
     source     |-> insertThreat.source,
     severity   |-> insertThreat.severity,
     aiScore    |-> insertThreat.aiScore,
     status     |-> insertThreat.status,
     rawData    |-> insertThreat.rawData]

\* MemStorage.createAction: `threatId || null`, `automated || false`.
StoredActionUnlinked(id, insertAction) ==
    [id         |-> id,
     threatId   |-> NoId,
     actionType |-> insertAction.actionType,
     automated  |-> insertAction.automated,
     details    |-> insertAction.details]
StoredAction(id, insertAction) ==
    [id         |-> id,
     threatId   |-> insertAction.threatId,
     actionType |-> insertAction.actionType,
     automated  |-> insertAction.automated,
     details    |-> insertAction.details]

\* MemStorage.createFraudCase.
StoredFraudCase(id, insertFraudCase) ==
    [id        |-> id,
     userId    |-> insertFraudCase.userId,
     riskScore |-> insertFraudCase.riskScore,
     status    |-> insertFraudCase.status]

\* MemStorage.updateThreatStatus: only the status of an existing Threat.
WithStatus(ths, id, status) ==
    IF id \in DOMAIN ths THEN [ths EXCEPT ![id].status = status] ELSE ths

\* `const id = this.currentId++`: the id each create method hands out, and
\* the counter after it.
NewThreatIdFirst(cur) == 1
NewThreatId(cur) == cur
\* A counter of the actions map alone, which the store does not have.
NewActionIdOwnCounter(cur) == Cardinality(DOMAIN actions) + 1
NewActionId(cur) == cur
NewFraudCaseId(cur) == cur
NextIdStuck(cur) == cur
NextId(cur) == cur + 1

\* MemStorage.initializeSystemConfig, the three flags the policy reads.
DefaultConfig ==
    [k \in PolicyKeys |->
        IF k = "sim_swap_manual" THEN "false" ELSE "true"]

\* --------------------------------------------------------------- state

\* No call of getStatisticalAnomalies is in progress.
IdleDetector == [pc |-> "idle", activities |-> <<>>, anomalies |-> <<>>]

IdleRun ==
    [pc                |-> "idle",
     kind              |-> "-",
     record            |-> NoRecord,
     fallbackAnalysis  |-> NoAnalysis,
     response          |-> "-",
     analysis          |-> NoAnalysis,
     createdThreat     |-> NoId,
     autoBlockCritical |-> "unread",
     autoBlockFraud    |-> "unread",
     simSwapManual     |-> "unread",
     shouldAutoBlock   |-> FALSE,
     actionType        |-> "",
     evaluations       |-> 0,
     error             |-> ""]

Init ==
    /\ threats = <<>>
    /\ actions = <<>>
    /\ fraudCases = <<>>
    /\ systemConfig = DefaultConfig
    /\ currentId = 1
    /\ run = [e \in Events |-> IdleRun]
    /\ failures = 0
    /\ patches = 0
    /\ activityLog = <<>>
    /\ detector = IdleDetector
    /\ generator = RunningGenerator

Store == <<threats, actions, fraudCases, systemConfig, currentId>>

\* A storage call that rejects: nothing is written and the catch block of the
\* analyze* method logs the error.
Caught(e, call) ==
    /\ failures < MaxFailures
    /\ failures' = failures + 1
    /\ run' = [run EXCEPT ![e].pc = "caught", ![e].error = call,
                          ![e].response = "-"]
    /\ UNCHANGED <<Detection, generator, Store, patches>>

\* ------------------------------------------------------ analyzeThreatData

\* threatAnalysis.ts 28, 54, 86 and gemini.ts 14-20 and 50: an analyze* method
\* is called with a record; analyzeThreatData gets JSON.stringify(record) and
\* no analysisType, computes the fallback analysis, and with
\* Math.random() >= 0.1 returns it at once, otherwise awaits the external
\* call. Events are started in order, as the generator's loops start them.
Analyze(e, kind, record, r0, useGemini) ==
    /\ run[e].pc = "idle"
    /\ \A d \in Events : d < e => run[d].pc # "idle"
    /\ LET fb == generateFallbackAnalysis(JSONstringify(record), Undefined, r0, r0)
       IN run' = [run EXCEPT
                    ![e].kind = kind,
                    ![e].record = record,
                    ![e].pc = IF useGemini THEN "await_generateContent"
                              ELSE "await_analyzeThreatData",
                    ![e].fallbackAnalysis = IF useGemini THEN fb ELSE NoAnalysis,
                    ![e].analysis = IF useGemini THEN NoAnalysis ELSE fb]
    /\ UNCHANGED <<Detection, generator, Store, failures, patches>>

\* mockData.ts 33-40 and 46-52: the generator hands over a record it built.
Begin(e, kind, r0, useGemini) == Analyze(e, kind, MockRecord(kind), r0, useGemini)

\* gemini.ts 43-47: the external call answers with a body that parses.
GeminiAnswers(e, answer) ==
    /\ run[e].pc = "await_generateContent"
    /\ run' = [run EXCEPT
                 ![e].pc = "await_analyzeThreatData",
                 ![e].response = "json",
                 ![e].fallbackAnalysis = NoAnalysis,
                 ![e].analysis = answer]
    /\ UNCHANGED <<Detection, generator, Store, failures, patches>>

\* gemini.ts 44 and 50: the body is empty, the analysis computed at line 17
\* is returned.
GeminiEmptyBody(e) ==
    /\ run[e].pc = "await_generateContent"
    /\ run' = [run EXCEPT
                 ![e].pc = "await_analyzeThreatData",
                 ![e].response = "empty_body",
                 ![e].analysis = run[e].fallbackAnalysis,
                 ![e].fallbackAnalysis = NoAnalysis]
    /\ UNCHANGED <<Detection, generator, Store, failures, patches>>

\* gemini.ts 51-54: generateContent rejects (transport error) or JSON.parse
\* throws (malformed body); the catch block computes a fresh fallback.
GeminiThrowsUncaught(e, how, r0) ==
    /\ run[e].pc = "await_generateContent"
    /\ run' = [run EXCEPT
                 ![e].pc = "caught",
                 ![e].response = how,
                 ![e].fallbackAnalysis = NoAnalysis,
                 ![e].error = "analyzeThreatData"]
    /\ UNCHANGED <<Detection, generator, Store, failures, patches>>
GeminiThrows(e, how, r0) ==
    /\ run[e].pc = "await_generateContent"
    /\ run' = [run EXCEPT
                 ![e].pc = "await_analyzeThreatData",
                 ![e].response = how,
                 ![e].fallbackAnalysis = NoAnalysis,
                 ![e].analysis =
                     generateFallbackAnalysis(JSONstringify(run[e].record),
                                              Undefined, r0, r0)]
    /\ UNCHANGED <<Detection, generator, Store, failures, patches>>

\* ------------------------------------------------- ThreatAnalysisService

\* The InsertThreat the analyze* methods build (lines 31-40, 57-66, 98-107);
\* the event stands for its own fromNumber / userId and raw record.
InsertThreat(e, kind, analysis) ==
    [threatType |-> InsertThreatType(kind, analysis.threatType),
     source     |-> e,
     severity   |-> scoresToSeverity(analysis.threatScore),
     aiScore    |-> analysis.threatScore,
     status     |-> "analyzing",
     rawData    |-> e]

\* The call storage.createThreat(threat) and the await on it.
CallCreateThreat(e) ==
    LET id == NewThreatId(currentId)
    IN /\ currentId' = NextId(currentId)
       /\ threats' = (id :> StoredThreat(id,
                         InsertThreat(e, run[e].kind, run[e].analysis))) @@ threats
       /\ run' = [run EXCEPT ![e].pc = "await_createThreat",
                             ![e].response = "-",
                             ![e].evaluations = 1,
                             ![e].createdThreat = id]
       /\ UNCHANGED <<Detection, generator, actions, fraudCases, systemConfig, failures, patches>>

\* threatAnalysis.ts 30-42 and 56-68: the score is back; above the threshold
\* the Threat is built and stored, otherwise the method returns.
ScoredRecord(e) ==
    /\ run[e].pc = "await_analyzeThreatData"
    /\ run[e].kind \in {"cdr", "sms"}
    /\ IF CreatesThreat(run[e].kind, run[e].analysis.threatScore)
       THEN CallCreateThreat(e)
       ELSE /\ run' = [run EXCEPT ![e].pc = "done", ![e].response = "-"]
            /\ UNCHANGED <<Detection, generator, Store, failures, patches>>

\* threatAnalysis.ts 88-95: above the threshold the FraudCase is stored.
ScoredBehavior(e) ==
    /\ run[e].pc = "await_analyzeThreatData"
    /\ run[e].kind = "user_behavior"
    /\ IF CreatesThreat(run[e].kind, run[e].analysis.threatScore)
       THEN LET id == NewFraudCaseId(currentId)
            IN /\ currentId' = NextId(currentId)
               /\ fraudCases' =
                      (id :> StoredFraudCase(id,
                          [userId    |-> e,
                           riskScore |-> run[e].analysis.threatScore,
                           status    |-> "investigating"])) @@ fraudCases
               /\ run' = [run EXCEPT ![e].pc = "await_createFraudCase",
                                     ![e].response = "-"]
               /\ UNCHANGED <<Detection, generator, threats, actions, systemConfig, failures, patches>>
       ELSE /\ run' = [run EXCEPT ![e].pc = "done", ![e].response = "-"]
            /\ UNCHANGED <<Detection, generator, Store, failures, patches>>

\* threatAnalysis.ts 98-109: the sim_swap Threat of a behavior sample.
BehaviorThreat(e) ==
    /\ run[e].pc = "await_createFraudCase"
    /\ CallCreateThreat(e)

\* A rejected createThreat or createFraudCase, caught at lines 47, 73, 112.
CreateFails(e) ==
    /\ \/ /\ run[e].pc = "await_analyzeThreatData"
          /\ CreatesThreat(run[e].kind, run[e].analysis.threatScore)
          /\ Caught(e, IF run[e].kind = "user_behavior"
                       THEN "createFraudCase" ELSE "createThreat")
       \/ /\ run[e].pc = "await_createFraudCase"
          /\ Caught(e, "createThreat")

\* MemStorage.getSystemConfig(key)?.configValue
getSystemConfig(key) == systemConfig[key]

\* threatAnalysis.ts 126-128: the three reads, one await apart.
ReadAutoBlockCritical(e) ==
    /\ run[e].pc = "await_createThreat"
    /\ run' = [run EXCEPT
                 ![e].pc = "await_auto_block_critical",
                 ![e].autoBlockCritical = getSystemConfig("auto_block_critical")]
    /\ UNCHANGED <<Detection, generator, Store, failures, patches>>

ReadAutoBlockFraud(e) ==
    /\ run[e].pc = "await_auto_block_critical"
    /\ run' = [run EXCEPT
                 ![e].pc = "await_auto_block_fraud",
                 ![e].autoBlockFraud = getSystemConfig("auto_block_fraud")]
    /\ UNCHANGED <<Detection, generator, Store, failures, patches>>

ReadSimSwapManual(e) ==
    /\ run[e].pc = "await_auto_block_fraud"
    /\ run' = [run EXCEPT
                 ![e].pc = "await_sim_swap_manual",
                 ![e].simSwapManual = getSystemConfig("sim_swap_manual")]
    /\ UNCHANGED <<Detection, generator, Store, failures, patches>>

\* A rejected getSystemConfig: handleAutoResponse throws, the analyze* method
\* catches.
ReadFails(e) ==
    /\ run[e].pc \in {"await_createThreat", "await_auto_block_critical",
                      "await_auto_block_fraud"}
    /\ Caught(e, "getSystemConfig")

\* threatAnalysis.ts 130-150: the rule is chosen; on a match the Action is
\* stored, otherwise handleAutoResponse returns. The rules read the Threat
\* object createThreat returned, which is the stored object.
DecideStatusFirst(e) ==
    /\ run[e].pc = "await_sim_swap_manual"
    /\ LET threat == threats[run[e].createdThreat]
           d == Policy(threat, run[e].autoBlockCritical,
                       run[e].autoBlockFraud, run[e].simSwapManual)
       IN IF d.shouldAutoBlock
          THEN /\ threats' = WithStatus(threats, threat.id, "blocked")
               /\ run' = [run EXCEPT ![e].pc = "await_createAction",
                                     ![e].shouldAutoBlock = TRUE,
                                     ![e].actionType = d.actionType]
               /\ UNCHANGED <<Detection, generator, actions, fraudCases, systemConfig,
                              currentId, failures, patches>>
          ELSE /\ run' = [run EXCEPT ![e].pc = "done"]
               /\ UNCHANGED <<Detection, generator, Store, failures, patches>>
Decide(e) ==
    /\ run[e].pc = "await_sim_swap_manual"
    /\ LET threat == threats[run[e].createdThreat]
           d == Policy(threat, run[e].autoBlockCritical,
                       run[e].autoBlockFraud, run[e].simSwapManual)
           id == NewActionId(currentId)
       IN IF d.shouldAutoBlock
          THEN /\ currentId' = NextId(currentId)
               /\ actions' =
                      (id :> StoredAction(id,
                          [threatId   |-> threat.id,
                           actionType |-> d.actionType,
                           automated  |-> TRUE,
                           details    |-> [source     |-> threat.source,
                                           threatType |-> threat.threatType,
                                           aiScore    |-> threat.aiScore]]))
                      @@ actions
               /\ run' = [run EXCEPT ![e].pc = "await_createAction",
                                     ![e].shouldAutoBlock = TRUE,
                                     ![e].actionType = d.actionType]
               /\ UNCHANGED <<Detection, generator, threats, fraudCases, systemConfig, failures, patches>>
          ELSE /\ run' = [run EXCEPT ![e].pc = "done"]
               /\ UNCHANGED <<Detection, generator, Store, failures, patches>>

\* A rejected createAction after a match.
ActionFails(e) ==
    /\ run[e].pc = "await_sim_swap_manual"
    /\ LET threat == threats[run[e].createdThreat]
           d == Policy(threat, run[e].autoBlockCritical,
                       run[e].autoBlockFraud, run[e].simSwapManual)
       IN /\ d.shouldAutoBlock
          /\ failures < MaxFailures
          /\ failures' = failures + 1
          /\ run' = [run EXCEPT ![e].pc = "caught",
                                ![e].error = "createAction",
                                ![e].shouldAutoBlock = TRUE,
                                ![e].actionType = d.actionType]
          /\ UNCHANGED <<Detection, generator, Store, patches>>

\* threatAnalysis.ts 153: the status update, after which the method returns.
SetBlocked(e) ==
    /\ run[e].pc = "await_createAction"
    /\ threats' = WithStatus(threats, run[e].createdThreat, "blocked")
    /\ run' = [run EXCEPT ![e].pc = "done"]
    /\ UNCHANGED <<Detection, generator, actions, fraudCases, systemConfig, currentId, failures, patches>>

\* A rejected updateThreatStatus.
StatusFails(e) ==
    /\ run[e].pc = "await_createAction"
    /\ Caught(e, "updateThreatStatus")

\* ---------------------------------------------------------------- routes

\* PATCH /api/system-config/:key -> MemStorage.updateSystemConfig. A request
\* that carries the stored value changes updatedAt alone, which is not held.
PatchConfig(key, value) ==
    /\ value # systemConfig[key]
    /\ patches < MaxPatches
    /\ patches' = patches + 1
    /\ systemConfig' = [systemConfig EXCEPT ![key] = value]
    /\ UNCHANGED <<Detection, generator, threats, actions, fraudCases, currentId, run, failures>>

\* PATCH /api/threats/:id/status -> MemStorage.updateThreatStatus. A request
\* for an unknown id (404) or carrying the stored status changes nothing.
PatchStatus(id, status) ==
    /\ id \in DOMAIN threats
    /\ status # threats[id].status
    /\ patches < MaxPatches
    /\ patches' = patches + 1
    /\ threats' = WithStatus(threats, id, status)
    /\ UNCHANGED <<Detection, generator, actions, fraudCases, systemConfig, currentId, run, failures>>

\* -------------------------------------------------------- specifications

Pipeline ==
    \/ \E e \in Events, k \in Kinds, r0 \in RandSamples, g \in BOOLEAN :
          Begin(e, k, r0, g)
    \/ \E e \in Events, a \in GeminiSamples : GeminiAnswers(e, a)
    \/ \E e \in Events : GeminiEmptyBody(e)
    \/ \E e \in Events, r0 \in RandSamples,
          how \in {"transport_error", "malformed_json"} : GeminiThrows(e, how, r0)
    \/ \E e \in Events : ScoredRecord(e)
    \/ \E e \in Events : ScoredBehavior(e)
    \/ \E e \in Events : BehaviorThreat(e)
    \/ \E e \in Events : CreateFails(e)
    \/ \E e \in Events : ReadAutoBlockCritical(e)
    \/ \E e \in Events : ReadAutoBlockFraud(e)
    \/ \E e \in Events : ReadSimSwapManual(e)
    \/ \E e \in Events : ReadFails(e)
    \/ \E e \in Events : Decide(e)
    \/ \E e \in Events : ActionFails(e)
    \/ \E e \in Events : SetBlocked(e)
    \/ \E e \in Events : StatusFails(e)

\* The pipeline with an operator tuning the configuration.
Next ==
    \/ Pipeline
    \/ \E k \in PolicyKeys, v \in ConfigValues : PatchConfig(k, v)

Spec == Init /\ [][Next]_vars

\* The pipeline with an operator who also sets the status of Threats.
OperatorNext ==
    \/ Next
    \/ \E id \in 1 .. 3 * MaxEvents, st \in PatchStatuses : PatchStatus(id, st)

OperatorSpec == Init /\ [][OperatorNext]_vars

\* ------------------------------------------------ the policy engine alone

\* Analyses the Threat under evaluation is drawn from.
PolicyAnalyses ==
    {[threatScore |-> s, threatType |-> t] :
        s \in {5010, 7000, 8500},
        t \in {"sms_phishing", "call_fraud", "sim_swap", "anomalous_traffic"}}

\* The store right after event 1 has had its Threat created (for a behavior
\* sample, after its FraudCase too), under any stored configuration.
InitPolicy ==
    \E kind \in Kinds, analysis \in PolicyAnalyses,
       config \in [PolicyKeys -> ConfigValues] :
        LET first == IF kind = "user_behavior" THEN 2 ELSE 1
        IN /\ CreatesThreat(kind, analysis.threatScore)
           /\ threats = (first :> StoredThreat(first, InsertThreat(1, kind, analysis)))
           /\ actions = <<>>
           /\ fraudCases =
                  IF kind = "user_behavior"
                  THEN (1 :> StoredFraudCase(1,
                           [userId    |-> 1,
                            riskScore |-> analysis.threatScore,
                            status    |-> "investigating"]))
                  ELSE <<>>
           /\ systemConfig = config
           /\ currentId = first + 1
           /\ run = [e \in Events |->
                       IF e = 1
                       THEN [IdleRun EXCEPT !.pc = "await_createThreat",
                                            !.kind = kind,
                                            !.record = MockRecord(kind),
                                            !.analysis = analysis,
                                            !.evaluations = 1,
                                            !.createdThreat = first]
                       ELSE IdleRun]
           /\ failures = 0
           /\ patches = 0
           /\ activityLog = <<>>
           /\ detector = IdleDetector
           /\ generator = RunningGenerator

\* handleAutoResponse, lines 124-155.
HandleAutoResponse(e) ==
    \/ ReadAutoBlockCritical(e)
    \/ ReadAutoBlockFraud(e)
    \/ ReadSimSwapManual(e)
    \/ ReadFails(e)
    \/ Decide(e)
    \/ ActionFails(e)
    \/ SetBlocked(e)
    \/ StatusFails(e)

PolicyNext == HandleAutoResponse(1)

PolicySpec == InitPolicy /\ [][PolicyNext]_vars

\* Policy evaluation invoked once more on a Threat it has already evaluated:
\* handleAutoResponse starts over with fresh locals.
Reinvoke(e) ==
    /\ run[e].pc = "done"
    /\ run[e].createdThreat # NoId
    /\ run[e].evaluations < MaxEvaluations
    /\ run' = [run EXCEPT ![e].pc = "await_createThreat",
                          ![e].evaluations = @ + 1,
                          ![e].autoBlockCritical = "unread",
                          ![e].autoBlockFraud = "unread",
                          ![e].simSwapManual = "unread",
                          ![e].shouldAutoBlock = FALSE,
                          ![e].actionType = ""]
    /\ UNCHANGED <<Detection, generator, Store, failures, patches>>

ReevalNext ==
    \/ HandleAutoResponse(1)
    \/ Reinvoke(1)

ReevalSpec == InitPolicy /\ [][ReevalNext]_vars

\* ------------------------------------- two config updates during a run

\* An operator turning automatic blocking off: two requests to
\* PATCH /api/system-config/:key, in this order.
OperatorRequests ==
    <<[key |-> "auto_block_critical", value |-> "false"],
      [key |-> "auto_block_fraud", value |-> "false"]>>

\* The next of the operator's requests reaches updateSystemConfig.
PatchNextConfig ==
    /\ patches < Len(OperatorRequests)
    /\ patches' = patches + 1
    /\ systemConfig' =
           [systemConfig EXCEPT ![OperatorRequests[patches + 1].key] =
                                    OperatorRequests[patches + 1].value]
    /\ UNCHANGED <<Detection, generator, threats, actions, fraudCases, currentId, run, failures>>

\* The store as initializeSystemConfig left it, event 1 with its Threat
\* just created.
InitSnapshot ==
    /\ InitPolicy
    /\ systemConfig = DefaultConfig

SnapshotNext ==
    \/ HandleAutoResponse(1)
    \/ PatchNextConfig

SnapshotSpec == InitSnapshot /\ [][SnapshotNext]_vars

\* ------------------------------------------------- one record, any content

\* analyzeCDRRecord / analyzeSMSRecord called with any record of its type,
\* complete or not, while an operator tunes the configuration.
IntakeNext ==
    \/ \E k \in {"cdr", "sms"}, r0 \in RandSamples, g \in BOOLEAN :
          \E rec \in RecordsOf(k) : Analyze(1, k, rec, r0, g)
    \/ \E a \in GeminiSamples : GeminiAnswers(1, a)
    \/ GeminiEmptyBody(1)
    \/ \E r0 \in RandSamples, how \in {"transport_error", "malformed_json"} :
          GeminiThrows(1, how, r0)
    \/ ScoredRecord(1)
    \/ CreateFails(1)
    \/ HandleAutoResponse(1)
    \/ \E k \in PolicyKeys, v \in ConfigValues : PatchConfig(k, v)

IntakeSpec == Init /\ [][IntakeNext]_vars

\* ------------------------------------------- AnomalyDetectionService

\* `if (activities.length < 50)` and the limit of the activity query.
MinimumSample == 50
QueryLimit == 1000

\* Sizes of the sampled activity tables, and how many of the first calls of
\* a table are long ones.
BatchSizes == {0, 49, 50, 100}
LongCalls == {0, 1, 5, 7}
\* How many call rows have no duration (a call that was not answered).
MissedCalls == {0, 2}
FraudCounts == {0, 10, 15}
LocationPatterns == {"even", "spike", "flood"}

ShortDuration == 6
LongDuration == 20

LocationNames == <<"Delhi", "Mumbai", "Pune", "Chennai", "Kolkata", "Jaipur">>

\* Row i of a sampled table of n rows: every tenth row is an sms (duration
\* 0), the first `long` rows are long calls, the last `fraud` rows are
\* fraud-flagged; locations are spread evenly over six places, or most rows
\* (spike: four in five, flood: all but the first six) are in one place.
ActivityRow(i, n, long, fraud, pattern) ==
    [id            |-> i,
     activityType  |-> IF i % 10 = 0 THEN "sms" ELSE "call",
     durationSec   |-> IF i % 10 = 0 THEN 0
                       ELSE IF i <= long THEN LongDuration ELSE ShortDuration,
     location      |-> IF i <= 6 THEN LocationNames[i]
                       ELSE IF pattern = "flood" THEN LocationNames[1]
                       ELSE IF pattern = "spike" /\ i % 5 # 0 THEN LocationNames[1]
                       ELSE LocationNames[(i % 6) + 1],
     isSpamOrFraud |-> IF i > n - fraud THEN 1 ELSE 0]

ActivityTable(n, long, fraud, pattern) ==
    [i \in 1 .. n |-> ActivityRow(i, n, long, fraud, pattern)]

\* The table with the first `missed` of the rows 9, 19, 29, ... turned into
\* calls of duration 0.
MissedCallTable(table, missed) ==
    [i \in 1 .. Len(table) |->
        IF i % 10 = 9 /\ i < 10 * missed
        THEN [table[i] EXCEPT !.durationSec = 0]
        ELSE table[i]]

\* DatabaseStorage.getTelecomActivities(undefined, 1000): the newest rows up
\* to the limit (the table is held newest first).
getTelecomActivities(log, limit) ==
    IF Len(log) <= limit THEN log ELSE SubSeq(log, 1, limit)

RECURSIVE SumOver(_, _)
SumOver(f, S) ==
    IF S = {} THEN 0
    ELSE LET x == CHOOSE y \in S : TRUE
         IN f[x] + SumOver(f, S \ {x})

\* Rows whose duration enters mean and stdDev: calls with durationSec > 0.
CallDurationRows(activities) ==
    {i \in 1 .. Len(activities) :
        activities[i].activityType = "call" /\ activities[i].durationSec > 0}

\* With n durations of sum S, mean = S / n and stdDev^2 = Q / n^3 where
\* Q is the sum of (n * val - S)^2: the comparisons of lines 170 and 178 are
\* made on these integers.
DurationCount(activities) == Cardinality(CallDurationRows(activities))
DurationSum(activities) ==
    SumOver([i \in CallDurationRows(activities) |-> activities[i].durationSec],
            CallDurationRows(activities))
DurationSpread(activities) ==
    LET n == DurationCount(activities)
        S == DurationSum(activities)
    IN SumOver([i \in CallDurationRows(activities) |->
                   (n * activities[i].durationSec - S)
                   * (n * activities[i].durationSec - S)],
               CallDurationRows(activities))

\* Math.abs(a.durationSec - mean) > k * stdDev, squared: k2 is k * k.
FartherThan(activities, a, k2) ==
    LET n == DurationCount(activities)
        d == n * a.durationSec - DurationSum(activities)
    IN n * d * d > k2 * DurationSpread(activities)

\* Lines 157-191: one call_duration_outlier per call farther than two
\* standard deviations from the mean, in input order.
\* Line 179: Math.min(10, Math.abs(outlier.durationSec - mean) / stdDev), its
\* whole part.  The quotient is the square root of n * d * d / Q; with
\* stdDev = 0 it is Infinity for an outlier, and Math.min gives 10.
DurationScore(activities, a) ==
    LET n == DurationCount(activities)
        d == n * a.durationSec - DurationSum(activities)
        Q == DurationSpread(activities)
    IN IF Q = 0
       THEN 10
       ELSE CHOOSE m \in 0 .. 10 :
                /\ m * m * Q <= n * d * d
                /\ m = 10 \/ (m + 1) * (m + 1) * Q > n * d * d

\* Lines 168-171: the calls farther than two standard deviations from the
\* mean, in input order.
DurationOutliers(activities) ==
    LET IsOutlier(a) == a.activityType = "call" /\ FartherThan(activities, a, 4)
    IN SelectSeq(activities, IsOutlier)

DurationAnomalies(activities) ==
    IF DurationCount(activities) > 0
    THEN LET outliers == DurationOutliers(activities)
         IN [k \in 1 .. Len(outliers) |->
                [anomalyType |-> "call_duration_outlier",
                 severity    |-> IF FartherThan(activities, outliers[k], 9)
                                 THEN "high" ELSE "medium",
                 score       |-> DurationScore(activities, outliers[k]),
                 source      |-> outliers[k].id]]
    ELSE <<>>

LocationCount(activities, location) ==
    Cardinality({i \in 1 .. Len(activities) : activities[i].location = location})
LocationsOf(activities) ==
    {activities[i].location : i \in 1 .. Len(activities)}

\* Lines 194-223: with more than five places, one location_activity_spike
\* per place holding more than three times the average count, in the order
\* the places first appear (avgFreq = rows / places).
LocationAnomalies(activities) ==
    LET places == Cardinality(LocationsOf(activities))
        rows == Len(activities)
        Spikes(a) ==
            /\ \A j \in 1 .. Len(activities) :
                   activities[j].location = a.location => j >= a.id
            /\ LocationCount(activities, a.location) * places > 3 * rows
        first == SelectSeq(activities, Spikes)
    IN IF places > 5
       THEN [k \in 1 .. Len(first) |->
                [anomalyType |-> "location_activity_spike",
                 severity    |-> IF LocationCount(activities, first[k].location)
                                        * places > 5 * rows
                                 THEN "critical" ELSE "high",
                 source      |-> first[k].location]]
       ELSE <<>>

\* Lines 150-225: nothing below the minimum sample, otherwise the anomalies
\* of the two passes.
StatisticalAnomaliesUnguarded(activities) ==
    DurationAnomalies(activities) \o LocationAnomalies(activities)
StatisticalAnomalies(activities) ==
    IF Len(activities) < MinimumSample
    THEN <<>>
    ELSE DurationAnomalies(activities) \o LocationAnomalies(activities)

\* GET /api/anomalies/statistical -> getStatisticalAnomalies: the activity
\* query is issued and awaited.
GetStatisticalAnomalies ==
    /\ detector.pc = "idle"
    /\ detector' = [detector EXCEPT !.pc = "await_getTelecomActivities"]
    /\ UNCHANGED <<Store, run, failures, patches, activityLog, generator>>

\* The query answers with the rows; the anomalies are computed and returned.
ActivitiesRead ==
    /\ detector.pc = "await_getTelecomActivities"
    /\ LET activities == getTelecomActivities(activityLog, QueryLimit)
       IN detector' = [pc         |-> "returned",
                       activities |-> activities,
                       anomalies  |-> StatisticalAnomalies(activities)]
    /\ UNCHANGED <<Store, run, failures, patches, activityLog, generator>>

\* The query fails: getTelecomActivities (storage.ts 412-415) logs the error
\* and answers with no rows.
ActivitiesQueryFails ==
    /\ detector.pc = "await_getTelecomActivities"
    /\ detector' = [pc         |-> "returned",
                    activities |-> <<>>,
                    anomalies  |-> StatisticalAnomalies(<<>>)]
    /\ UNCHANGED <<Store, run, failures, patches, activityLog, generator>>

\* The activity table as imported before the scan is requested.
InitDetector ==
    /\ threats = <<>>
    /\ actions = <<>>
    /\ fraudCases = <<>>
    /\ systemConfig = DefaultConfig
    /\ currentId = 1
    /\ run = [e \in Events |-> IdleRun]
    /\ failures = 0
    /\ patches = 0
    /\ \E n \in BatchSizes, long \in LongCalls, fraud \in FraudCounts,
          pattern \in LocationPatterns, missed \in MissedCalls :
           activityLog = MissedCallTable(ActivityTable(n, long, fraud, pattern), missed)
    /\ detector = IdleDetector
    /\ generator = RunningGenerator

DetectorNext ==
    \/ GetStatisticalAnomalies
    \/ ActivitiesRead
    \/ ActivitiesQueryFails

DetectorSpec == InitDetector /\ [][DetectorNext]_vars

\* ================================================================ claims

ThreatsOf(e) == {id \in DOMAIN threats : threats[id].rawData = e}
ActionsOf(e) == {id \in DOMAIN actions : actions[id].details.source = e}
AutomatedActionsFor(tid) ==
    {id \in DOMAIN actions : actions[id].automated /\ actions[id].threatId = tid}
Scored(e) == run[e].analysis # NoAnalysis
Finished(e) == run[e].pc = "done"

\* C1 (as stated): every Event of any kind whose score is above 5.0 and whose
\* processing met no storage failure has exactly one Threat, created with
\* status analyzing.
C1_ThreatAboveFive ==
    \A e \in Events :
        /\ (Finished(e) /\ run[e].analysis.threatScore > 5000)
               => Cardinality(ThreatsOf(e)) = 1
        /\ run[e].pc = "await_createThreat"
               => threats[run[e].createdThreat].status = "analyzing"

\* C1 (amended): a call or message record scored above 5.0, and a behavior
\* sample scored above 6.0, processed without storage failure, has exactly
\* one Threat, created with status analyzing; no Event ever has two.
C1_ThreatPerQualifyingEvent ==
    \A e \in Events :
        /\ Cardinality(ThreatsOf(e)) <= 1
        /\ (/\ Finished(e)
            /\ \/ run[e].kind \in {"cdr", "sms"} /\ run[e].analysis.threatScore > 5000
               \/ run[e].kind = "user_behavior" /\ run[e].analysis.threatScore > 6000)
               => Cardinality(ThreatsOf(e)) = 1
        /\ run[e].pc = "await_createThreat"
               => /\ ThreatsOf(e) = {run[e].createdThreat}
                  /\ threats[run[e].createdThreat].status = "analyzing"

C1_Witness ==
    \E e, d \in Events :
        /\ Finished(e) /\ run[e].kind = "user_behavior"
        /\ run[e].analysis.threatScore > 6000
        /\ Cardinality(ThreatsOf(e)) = 1
        /\ Finished(d) /\ run[d].kind = "cdr"
        /\ run[d].analysis.threatScore = 5010
        /\ Cardinality(ThreatsOf(d)) = 1

\* C2: an Event scored at or below 5.0 (5.0 included) has no Threat and no
\* Action.
C2_NoThreatAtOrBelowFive ==
    \A e \in Events :
        (Scored(e) /\ run[e].analysis.threatScore <= 5000)
            => ThreatsOf(e) = {} /\ ActionsOf(e) = {}

C2_Witness ==
    \E e \in Events :
        /\ Finished(e)
        /\ run[e].analysis.threatScore = 5000
        /\ run[e].kind \in {"cdr", "sms"}
        /\ ThreatsOf(e) = {}

\* The classification the specification states, on thousandths.
Classification(score) ==
    IF score >= 8500 THEN "critical"
    ELSE IF score >= 7000 THEN "high"
    ELSE IF score >= 5000 THEN "medium"
    ELSE "low"

\* C3: every stored Threat's severity is the classification of its stored
\* score, and no step (policy evaluation, status update by the engine or by
\* an operator) changes the severity or the score of a stored Threat.
C3_SeverityIsClassOfScore ==
    /\ [](\A id \in DOMAIN threats :
             threats[id].severity = Classification(threats[id].aiScore))
    /\ [][\A id \in DOMAIN threats :
             /\ id \in DOMAIN threats'
             /\ threats'[id].severity = threats[id].severity
             /\ threats'[id].aiScore = threats[id].aiScore]_vars

C3_Witness ==
    \E id, jd \in DOMAIN threats :
        /\ threats[id].aiScore = 8500 /\ threats[id].severity = "critical"
        /\ threats[id].status = "blocked"
        /\ threats[jd].aiScore = 7000 /\ threats[jd].severity = "high"
        /\ threats[jd].status = "resolved"

\* The rule table the specification states, for flags that are booleans.
ExpectedAction(severity, threatType, critical, fraud, manual) ==
    IF severity = "critical" /\ critical = "true"
    THEN IF threatType = "sms_phishing" THEN "block_phone" ELSE "block_ip"
    ELSE IF threatType = "call_fraud" /\ fraud = "true" THEN "block_phone"
    ELSE IF threatType = "sim_swap" /\ manual = "false" THEN "create_case"
    ELSE ""

Booleans == {"true", "false"}
Decided(e) ==
    \/ run[e].pc \in {"await_createAction", "done"}
    \/ run[e].pc = "caught" /\ run[e].error \in {"createAction", "updateThreatStatus"}

\* C4: under every boolean configuration, policy evaluation of a Threat picks
\* the action of the first matching rule (critical and auto_block_critical,
\* then call_fraud and auto_block_fraud, then sim_swap and not sim_swap_manual);
\* with no match there is no automated Action and the Threat stays analyzing;
\* a critical call_fraud Threat with both flags true gets block_ip.
C4_FirstMatchingRule ==
    \A e \in Events :
        (/\ Decided(e)
         /\ \A k \in PolicyKeys : systemConfig[k] \in Booleans)
        => LET t == threats[run[e].createdThreat]
               expected == ExpectedAction(t.severity, t.threatType,
                               systemConfig["auto_block_critical"],
                               systemConfig["auto_block_fraud"],
                               systemConfig["sim_swap_manual"])
           IN /\ run[e].actionType = expected
              /\ run[e].shouldAutoBlock = (expected # "")
              /\ \A a \in AutomatedActionsFor(t.id) :
                     actions[a].actionType = expected
              /\ expected = "" =>
                     /\ AutomatedActionsFor(t.id) = {}
                     /\ t.status = "analyzing"
              /\ (/\ t.severity = "critical" /\ t.threatType = "call_fraud"
                  /\ systemConfig["auto_block_critical"] = "true"
                  /\ systemConfig["auto_block_fraud"] = "true")
                     => run[e].actionType = "block_ip"

C4_Witness ==
    \E e \in Events :
        /\ Finished(e)
        /\ threats[run[e].createdThreat].severity = "critical"
        /\ threats[run[e].createdThreat].threatType = "call_fraud"
        /\ systemConfig["auto_block_critical"] = "true"
        /\ systemConfig["auto_block_fraud"] = "true"
        /\ \E a \in AutomatedActionsFor(run[e].createdThreat) :
               actions[a].actionType = "block_ip"

\* C5: once a run whose rule matched has made both writes, exactly one
\* automated Action refers to its Threat and the Threat is blocked.
C5_MatchWritesActionAndBlocks ==
    \A e \in Events :
        (Finished(e) /\ run[e].shouldAutoBlock)
        => /\ Cardinality(AutomatedActionsFor(run[e].createdThreat)) = 1
           /\ Cardinality(ActionsOf(e)) = 1
           /\ threats[run[e].createdThreat].status = "blocked"

C5_Witness ==
    \E e \in Events :
        /\ Finished(e) /\ run[e].shouldAutoBlock
        /\ Cardinality(AutomatedActionsFor(run[e].createdThreat)) = 1
        /\ threats[run[e].createdThreat].status = "blocked"

\* C6: policy evaluation carried out twice on the same Threat leaves exactly
\* one automated Action for it: the second evaluation, finding the Threat
\* blocked, writes nothing.
C6_PolicyIdempotent ==
    \A e \in Events :
        (Finished(e) /\ run[e].evaluations = 2)
        => Cardinality(AutomatedActionsFor(run[e].createdThreat)) <= 1

\* C7: no Threat is referenced by two automated Actions, however the runs of
\* concurrently processed Events interleave.
C7_AtMostOneAutomatedAction ==
    \A tid \in DOMAIN threats : Cardinality(AutomatedActionsFor(tid)) <= 1

C7_Witness ==
    \E e, d \in Events :
        /\ e # d
        /\ run[e].createdThreat # run[d].createdThreat
        /\ Cardinality(AutomatedActionsFor(run[e].createdThreat)) = 1
        /\ Cardinality(AutomatedActionsFor(run[d].createdThreat)) = 1

\* C8: a run whose createAction or updateThreatStatus failed after a match
\* leaves its Threat analyzing and no automated Action for it.
C8_NoPartialState ==
    \A e \in Events :
        (run[e].pc = "caught" /\ run[e].error \in {"createAction", "updateThreatStatus"})
        => /\ threats[run[e].createdThreat].status = "analyzing"
           /\ AutomatedActionsFor(run[e].createdThreat) = {}

\* C9: a run whose configuration read failed, or delivered no value for a
\* flag, creates no automated Action and leaves its Threat analyzing.
C9_FailSafeConfig ==
    \A e \in Events :
        (\/ run[e].pc = "caught" /\ run[e].error = "getSystemConfig"
         \/ "none" \in {run[e].autoBlockCritical, run[e].autoBlockFraud,
                        run[e].simSwapManual})
        => /\ AutomatedActionsFor(run[e].createdThreat) = {}
           /\ threats[run[e].createdThreat].status = "analyzing"

\* What generateFallbackAnalysis can return for the data the pipeline passes.
FallbackResults ==
    {generateFallbackAnalysis(StringData, Undefined, r0, r1) :
        r0 \in RandSamples, r1 \in RandSamples}

\* C10: after a transport error, an empty body or malformed JSON the score
\* provider has returned a fallback analysis to the analyze method, and no
\* exception has reached it.
C10_ProviderFallsBack ==
    \A e \in Events :
        run[e].response \in {"transport_error", "empty_body", "malformed_json"}
        => /\ run[e].pc = "await_analyzeThreatData"
           /\ run[e].error = ""
           /\ run[e].analysis \in FallbackResults

C10_Witness ==
    \E e, d \in Events :
        /\ run[e].response = "empty_body"
        /\ run[e].analysis \in FallbackResults
        /\ run[d].response \in {"transport_error", "malformed_json"}
        /\ run[d].analysis \in FallbackResults

LacksRequiredField(record) == record.fromNumber = "" \/ record.message = ""

\* C12: an Event that lacks a required field is rejected before scoring: no
\* score is computed for it, it has no Threat, and its caller is handed a
\* rejection.
C12_InvalidEventRejected ==
    \A e \in Events :
        (run[e].pc # "idle" /\ LacksRequiredField(run[e].record))
        => /\ run[e].pc = "rejected"
           /\ run[e].analysis = NoAnalysis
           /\ run[e].fallbackAnalysis = NoAnalysis
           /\ ThreatsOf(e) = {}

\* What the promise of an analyze* call has settled to: the try block ran to
\* its end (done), or the catch block logged the error and returned (caught).
Settled(e) ==
    IF run[e].pc \in {"done", "caught"} THEN "fulfilled" ELSE "pending"

\* C13: a failed Threat, Action or status write and a failed configuration
\* read are reported to the caller of the analyze operation, whose call then
\* does not complete as a success; a transient scoring failure is absorbed.
C13_FailuresReported ==
    \A e \in Events :
        /\ run[e].error # "" => Settled(e) = "rejected"
        /\ run[e].response \in {"transport_error", "empty_body", "malformed_json"}
               => Settled(e) # "rejected"

\* C14: a message record with the body "URGENT click here to verify your
\* account", scored without the external service, gets a score in [7, 10]
\* and threatType sms_phishing; with auto_block_critical true and a score of
\* at least 8.5 its Threat ends blocked with exactly one automated
\* block_phone Action.
C14_UrgentSmsBlocked ==
    \A e \in Events :
        (run[e].kind = "sms" /\ run[e].record.message = UrgentBody)
        => /\ (run[e].pc = "await_analyzeThreatData" /\ run[e].response # "json")
                  => /\ run[e].analysis.threatScore \in 7000 .. 10000
                     /\ run[e].analysis.threatType = "sms_phishing"
           /\ (/\ Finished(e)
               /\ run[e].analysis \in FallbackResults
               /\ run[e].analysis.threatScore >= 8500
               /\ run[e].autoBlockCritical = "true")
                  => /\ threats[run[e].createdThreat].status = "blocked"
                     /\ Cardinality(AutomatedActionsFor(run[e].createdThreat)) = 1
                     /\ \A a \in AutomatedActionsFor(run[e].createdThreat) :
                            actions[a].actionType = "block_phone"

\* C15: a complete call record of 3 seconds, scored by the fallback and
\* processed while auto_block_fraud is false, gets a Threat (its processing
\* does not end at the score), of threatType call_fraud and severity medium
\* or high, which stays analyzing, and no Action.
C15_ShortCallNotBlocked ==
    /\ [][\A e \in Events :
             (/\ run[e].kind = "cdr" /\ run[e].record.duration = 3
              /\ run[e].record.fromNumber # ""
              /\ run[e].pc = "await_analyzeThreatData"
              /\ run[e].analysis \in FallbackResults
              /\ systemConfig["auto_block_fraud"] = "false")
             => run'[e].pc # "done"]_vars
    /\ [](\A e \in Events :
             (/\ run[e].kind = "cdr" /\ run[e].record.duration = 3
              /\ run[e].record.fromNumber # ""
              /\ Finished(e)
              /\ run[e].analysis \in FallbackResults
              /\ run[e].autoBlockFraud = "false")
             => LET t == threats[run[e].createdThreat]
                IN /\ t.threatType = "call_fraud"
                   /\ t.severity \in {"medium", "high"}
                   /\ t.status = "analyzing"
                   /\ \A a \in DOMAIN actions : actions[a].threatId # t.id)

AnomaliesOfType(type) ==
    {k \in 1 .. Len(detector.anomalies) : detector.anomalies[k].anomalyType = type}

\* C16: a scan over fewer than 50 activity records returns no anomaly,
\* whatever the records contain.
C16_EmptyBelowMinimum ==
    (detector.pc = "returned" /\ Len(detector.activities) < 50)
    => detector.anomalies = <<>>

C16_Witness ==
    /\ detector.pc = "returned"
    /\ Len(detector.activities) = 49
    /\ detector.anomalies = <<>>
    /\ StatisticalAnomaliesUnguarded(detector.activities) # <<>>

FraudFlagged(activities) ==
    Cardinality({i \in 1 .. Len(activities) : activities[i].isSpamOrFraud = 1})

\* C17: a scan over at least 50 records returns exactly one fraud_rate_spike
\* anomaly when more than a tenth of the records are fraud-flagged and none
\* otherwise; over 100 records with 15 fraud-flagged that anomaly has
\* severity high.
C17_FraudRateSpike ==
    (detector.pc = "returned" /\ Len(detector.activities) >= 50)
    => LET total == Len(detector.activities)
           fraud == FraudFlagged(detector.activities)
           spikes == AnomaliesOfType("fraud_rate_spike")
       IN /\ Cardinality(spikes) = IF 10 * fraud > total THEN 1 ELSE 0
          /\ (total = 100 /\ fraud = 15)
                 => \A k \in spikes : detector.anomalies[k].severity = "high"

\* C18: in every state, also between the two writes of a match and after a
\* failed write, a Threat the policy engine has set to blocked has a stored
\* automated Action with its id.
C18_BlockedHasAction ==
    \A id \in DOMAIN threats :
        threats[id].status = "blocked" => AutomatedActionsFor(id) # {}

C18_Witness ==
    \E e, d \in Events :
        /\ Finished(e) /\ run[e].createdThreat # NoId
        /\ threats[run[e].createdThreat].status = "blocked"
        /\ AutomatedActionsFor(run[e].createdThreat) # {}
        /\ run[d].pc = "caught" /\ run[d].error = "updateThreatStatus"
        /\ threats[run[d].createdThreat].status = "analyzing"

\* The configuration the store held after p of the operator's requests.
RECURSIVE ConfigAfter(_)
ConfigAfter(p) ==
    IF p = 0 THEN DefaultConfig
    ELSE [ConfigAfter(p - 1) EXCEPT ![OperatorRequests[p].key] =
                                       OperatorRequests[p].value]

Qualifies(e) ==
    IF run[e].kind = "user_behavior"
    THEN run[e].analysis.threatScore > 6000
    ELSE run[e].analysis.threatScore > 5000
OwnThreatType(e) ==
    IF run[e].kind = "user_behavior" THEN "sim_swap"
    ELSE IF run[e].analysis.threatType # "" THEN run[e].analysis.threatType
    ELSE IF run[e].kind = "cdr" THEN "call_fraud" ELSE "sms_phishing"
OwnAction(e) ==
    ExpectedAction(Classification(run[e].analysis.threatScore), OwnThreatType(e),
                   "true", "true", "false")

\* C20: with no configuration update and no storage failure, once all Events
\* are processed each Event has the Threat and the Action it has when
\* processed alone, however the runs interleaved; and in every state each
\* Action refers to the Threat of the Event it was created for.
C20_IndependentEvents ==
    /\ \A a \in DOMAIN actions :
           /\ actions[a].threatId \in DOMAIN threats
           /\ threats[actions[a].threatId].rawData = actions[a].details.source
    /\ ((\A e \in Events : Finished(e)) /\ patches = 0 /\ failures = 0)
       => /\ \A e \in Events :
                IF Qualifies(e)
                THEN /\ Cardinality(ThreatsOf(e)) = 1
                     /\ \A t \in ThreatsOf(e) :
                            /\ threats[t].aiScore = run[e].analysis.threatScore
                            /\ threats[t].threatType = OwnThreatType(e)
                            /\ threats[t].severity =
                                   Classification(run[e].analysis.threatScore)
                            /\ threats[t].status =
                                   IF OwnAction(e) = "" THEN "analyzing" ELSE "blocked"
                            /\ Cardinality({a \in DOMAIN actions :
                                               actions[a].threatId = t}) =
                                   IF OwnAction(e) = "" THEN 0 ELSE 1
                     /\ \A a \in ActionsOf(e) :
                            /\ actions[a].actionType = OwnAction(e)
                            /\ actions[a].automated
                     /\ Cardinality(ActionsOf(e)) = IF OwnAction(e) = "" THEN 0 ELSE 1
                ELSE ThreatsOf(e) = {} /\ ActionsOf(e) = {}
          /\ Cardinality(DOMAIN threats) =
                 Cardinality({e \in Events : Qualifies(e)})
          /\ Cardinality(DOMAIN actions) =
                 Cardinality({e \in Events : Qualifies(e) /\ OwnAction(e) # ""})
          /\ Cardinality(DOMAIN fraudCases) =
                 Cardinality({e \in Events :
                                 Qualifies(e) /\ run[e].kind = "user_behavior"})

C20_Witness ==
    \E e, d \in Events :
        /\ e < d
        /\ \A x \in Events : Finished(x)
        /\ patches = 0 /\ failures = 0
        /\ run[d].createdThreat # NoId
        /\ run[d].createdThreat < run[e].createdThreat
        /\ Cardinality(ActionsOf(e)) = 1
        /\ Cardinality(ActionsOf(d)) = 1
        /\ \E a \in ActionsOf(e), b \in ActionsOf(d) : a < b

\* ---------------------------------------------------------------------------
\* The external call and the progress of a run.
\* gemini.ts 20-48: analyzeThreatData awaits ai.models.generateContent(...)
\* with the model, the config and the contents only: no timeout, no abort
\* signal, no race against a timer.  The run resumes when the service answers
\* (GeminiAnswers, GeminiEmptyBody) or the call rejects (GeminiThrows), and on
\* nothing else.  The steps that follow are continuations of promises of the
\* program's own store, which the event loop always runs: they are the steps
\* under weak fairness.  Nothing obliges the service to answer.
\* ---------------------------------------------------------------------------
Continuation(e) ==
    \/ ScoredRecord(e)
    \/ CreateFails(e)
    \/ HandleAutoResponse(e)

ScoringSpec == Init /\ [][IntakeNext]_vars /\ WF_vars(Continuation(1))

\* A run that has its score goes on to its end: the continuations are fair.
ScoredRunFinishes ==
    \A e \in Events :
        (run[e].pc = "await_analyzeThreatData") ~> (run[e].pc \in {"done", "caught"})

\* C21: the external call is bounded in time: a run that waits for the service
\* gets a result (the service's or, after the timeout, the fallback) and the
\* Event's processing eventually finishes, whether or not the service answers.
C21_ExternalCallBounded ==
    \A e \in Events :
        (run[e].pc = "await_generateContent") ~> (run[e].pc \in {"done", "caught"})

\* ---------------------------------------------------------------------------
\* MockDataGenerator: start, stop and the interval timer (mockData.ts 7-53).
\* start() and stop() are synchronous; the timer's callback runs
\* generateRealtimeData.  All three run as tasks of their own, so only while
\* no run is in the middle of a chain of promise continuations of the
\* in-memory store: every run is not begun, suspended on the external call, or
\* over.
\* ---------------------------------------------------------------------------
MaxStarts == 2

\* mockData.ts 33 and 38: three call records, then two messages.
InitialCDR == 3
InitialSMS == 2

AtRest ==
    \A e \in Events : run[e].pc \in {"idle", "await_generateContent", "done", "caught"}

\* The events not begun yet, and the first k of them.
IdleEvents == {e \in Events : run[e].pc = "idle"}
FirstIdle(k) == {e \in IdleEvents : Cardinality({d \in IdleEvents : d < e}) < k}

\* The run of an analyze call up to its first await (as in Analyze).
StartedRun(kind, r0, useGemini) ==
    LET fb == generateFallbackAnalysis(JSONstringify(MockRecord(kind)), Undefined, r0, r0)
    IN [IdleRun EXCEPT
          !.kind = kind,
          !.record = MockRecord(kind),
          !.pc = IF useGemini THEN "await_generateContent"
                 ELSE "await_analyzeThreatData",
          !.fallbackAnalysis = IF useGemini THEN fb ELSE NoAnalysis,
          !.analysis = IF useGemini THEN NoAnalysis ELSE fb]

\* mockData.ts 31-42: generateInitialData hands its five records to
\* analyzeCDRRecord and analyzeSMSRecord, one call after the other.  The runs
\* followed are those of the events in begun; position[e] is the place of e's
\* record among the five, so call records come before messages.
generateInitialData(begun, position, draw) ==
    [e \in Events |->
        IF e \in begun
        THEN StartedRun(IF position[e] <= InitialCDR THEN "cdr" ELSE "sms",
                        draw[e][1], draw[e][2])
        ELSE run[e]]

\* mockData.ts 8: if (this.isRunning) return;
AlreadyRunningIgnored(g) == FALSE
AlreadyRunning(g) == g.isRunning

\* mockData.ts 7-20.
start ==
    /\ AtRest
    /\ IF AlreadyRunning(generator)
       THEN UNCHANGED vars
       ELSE /\ generator.started < MaxStarts
            /\ \E k \in 0..(InitialCDR + InitialSMS) :
                 LET begun == FirstIdle(k)
                 IN /\ Cardinality(begun) = k
                    /\ \E position \in [begun -> 1..(InitialCDR + InitialSMS)],
                          draw \in [begun -> RandSamples \X BOOLEAN] :
                         /\ \A d, e \in begun : d < e => position[d] < position[e]
                         /\ run' = generateInitialData(begun, position, draw)
            /\ generator' = [isRunning |-> TRUE,
                             interval  |-> generator.started + 1,
                             timers    |-> generator.timers \cup {generator.started + 1},
                             started   |-> generator.started + 1]
            /\ UNCHANGED <<Detection, Store, failures, patches>>

\* mockData.ts 22-29.
stop ==
    /\ AtRest
    /\ generator' = [generator EXCEPT
                       !.timers = IF generator.interval # NoTimer
                                  THEN generator.timers \ {generator.interval}
                                  ELSE generator.timers,
                       !.interval = NoTimer,
                       !.isRunning = FALSE]
    /\ UNCHANGED <<Detection, Store, run, failures, patches>>

\* mockData.ts 17-19, 44-53: an active timer fires and generateRealtimeData
\* hands one record to analyzeCDRRecord or analyzeSMSRecord; the run is
\* followed when an event is left for it.
generateRealtimeData(t) ==
    /\ AtRest
    /\ t \in generator.timers
    /\ \E kind \in {"cdr", "sms"}, r0 \in RandSamples, g \in BOOLEAN :
          \/ \E e \in FirstIdle(1) : Begin(e, kind, r0, g)
          \/ IdleEvents = {} /\ UNCHANGED vars

GeneratorNext ==
    \/ start
    \/ stop
    \/ \E t \in 1..MaxStarts : generateRealtimeData(t)
    \/ \E e \in Events :
          \/ \E a \in GeminiSamples : GeminiAnswers(e, a)
          \/ GeminiEmptyBody(e)
          \/ \E r0 \in RandSamples, how \in {"transport_error", "malformed_json"} :
                GeminiThrows(e, how, r0)
          \/ ScoredRecord(e)
          \/ ReadAutoBlockCritical(e)
          \/ ReadAutoBlockFraud(e)
          \/ ReadSimSwapManual(e)
          \/ Decide(e)
          \/ SetBlocked(e)

\* The generator as constructed (mockData.ts 163), before start().
InitGenerator ==
    /\ threats = <<>>
    /\ actions = <<>>
    /\ fraudCases = <<>>
    /\ systemConfig = DefaultConfig
    /\ currentId = 1
    /\ run = [e \in Events |-> IdleRun]
    /\ failures = 0
    /\ patches = 0
    /\ activityLog = <<>>
    /\ detector = IdleDetector
    /\ generator = IdleGenerator

GeneratorSpec == InitGenerator /\ [][GeneratorNext]_vars

\* C22: an Event whose scoring is still outstanding when the generator is
\* stopped is cancelled: no Threat is created for it.  While the generator is
\* stopped, no step of a run that is still waiting for its score stores a
\* Threat of that Event.
C22_CancelledEventCreatesNoThreat ==
    [][\A e \in Events :
          (/\ ~generator.isRunning
           /\ run[e].pc \in {"await_generateContent", "await_analyzeThreatData"})
          => ThreatsOf(e)' = {}]_vars

\* C28: under any sequence of start and stop, at most one interval timer is
\* active, and one is active exactly while isRunning is true (it is the one
\* this.interval holds); a start while running does nothing (no second timer,
\* no second initial batch); a start while stopped starts generation again.
C28_StartStopKeepsOneTimer ==
    /\ [](/\ Cardinality(generator.timers) <= 1
          /\ (generator.timers # {}) <=> generator.isRunning
          /\ generator.isRunning => generator.timers = {generator.interval})
    /\ [][generator.isRunning
            => /\ generator'.started = generator.started
               /\ generator'.timers \subseteq generator.timers]_vars
    /\ [][(~generator.isRunning /\ generator'.started # generator.started)
            => /\ generator'.isRunning
               /\ generator'.timers = {generator'.interval}
               /\ generator'.started = generator.started + 1]_vars

\* Generation was started, stopped and started again: the second timer runs
\* alone, and a run of the first start is still in progress.
C28_Witness ==
    /\ generator.started = 2
    /\ generator.isRunning
    /\ generator.timers = {2}
    /\ \E e \in Events : run[e].pc = "await_generateContent"

\* ---------------------------------------------------------------------------
\* Operator requests that write to the store next to the pipeline's runs:
\* PATCH /api/threats/:id/status (routes 80-91) and POST /api/actions
\* (routes 110-118), which hands req.body to createAction as it came.
\* IStorage (storage.ts 11-66) has no operation that deletes a Threat or an
\* Action and none that updates an Action.
\* ---------------------------------------------------------------------------
\* Request bodies of POST /api/actions.  A body may carry an id of its own,
\* here the ids the first records of the store get.
ActionBodies ==
    {[id         |-> i,
      threatId   |-> 1,
      actionType |-> "manual_block",
      automated  |-> auto,
      details    |-> [source |-> 0, threatType |-> "operator", aiScore |-> 0]] :
        i \in {1, 2}, auto \in BOOLEAN}

\* storage.ts 181-191: { ...insertAction, id, ... } and this.actions.set(id, action):
\* the id of the store replaces the body's, and is the key.
ActionKeyOfBody(id, insertAction) == insertAction.id
ActionKey(id, insertAction) == id

\* POST /api/actions: storage.createAction(req.body).
PostAction(body) ==
    /\ patches < MaxPatches
    /\ patches' = patches + 1
    /\ LET id == NewActionId(currentId)
       IN /\ currentId' = NextId(currentId)
          /\ actions' = (ActionKey(id, body) :> StoredAction(id, body)) @@ actions
    /\ UNCHANGED <<Detection, generator, threats, fraudCases, systemConfig, run, failures>>

RequestNext ==
    \/ \E e \in Events, k \in Kinds, r0 \in RandSamples, g \in BOOLEAN :
          Begin(e, k, r0, g)
    \/ \E e \in Events, a \in GeminiSamples : GeminiAnswers(e, a)
    \/ \E e \in Events : GeminiEmptyBody(e)
    \/ \E e \in Events, r0 \in RandSamples,
          how \in {"transport_error", "malformed_json"} : GeminiThrows(e, how, r0)
    \/ \E e \in Events : ScoredRecord(e)
    \/ \E e \in Events : ScoredBehavior(e)
    \/ \E e \in Events : BehaviorThreat(e)
    \/ \E e \in Events : ReadAutoBlockCritical(e)
    \/ \E e \in Events : ReadAutoBlockFraud(e)
    \/ \E e \in Events : ReadSimSwapManual(e)
    \/ \E e \in Events : Decide(e)
    \/ \E e \in Events : SetBlocked(e)
    \/ \E id \in 1 .. 3 * MaxEvents, st \in PatchStatuses : PatchStatus(id, st)
    \/ \E body \in ActionBodies : PostAction(body)

RequestSpec == Init /\ [][RequestNext]_vars

\* C23: the Threat/Action record is append-only: no step removes a stored
\* Threat or a stored Action, and no step changes a field of a stored Action.
C23_AppendOnlyRecord ==
    [][/\ DOMAIN threats \subseteq DOMAIN threats'
       /\ \A id \in DOMAIN actions :
             id \in DOMAIN actions' /\ actions'[id] = actions[id]]_vars

\* An operator's Action whose body named the id of an automated Action is
\* stored next to that Action, which is as it was created.
C23_Witness ==
    \E a, b \in DOMAIN actions :
        /\ actions[a].automated /\ actions[a].details.source \in Events
        /\ actions[b].details.source = 0
        /\ a # b
        /\ \E body \in ActionBodies : body.id = a /\ actions[b] = StoredAction(b, body)

\* The ids in use in the three maps of the store.
StoredIds == DOMAIN threats \cup DOMAIN actions \cup DOMAIN fraudCases

\* C29: under any interleaving of runs and operator requests, every Threat,
\* Action and FraudCase has an id no other Threat, Action or FraudCase has:
\* the maps share no key, every record carries the id it is stored under, the
\* ids in use are below the shared counter, and a newly stored record gets an
\* id not below the counter of the moment, which the counter then passes.
C29_IdsUniqueAcrossStore ==
    /\ [](/\ DOMAIN threats \cap DOMAIN actions = {}
          /\ DOMAIN threats \cap DOMAIN fraudCases = {}
          /\ DOMAIN actions \cap DOMAIN fraudCases = {}
          /\ \A id \in DOMAIN threats : threats[id].id = id
          /\ \A id \in DOMAIN actions : actions[id].id = id
          /\ \A id \in DOMAIN fraudCases : fraudCases[id].id = id
          /\ \A id \in StoredIds : id < currentId)
    /\ [][\A id \in StoredIds' \ StoredIds :
             id >= currentId /\ id < currentId']_vars

\* Two runs and an operator's POST /api/actions have interleaved: a FraudCase,
\* two Threats, an automated Action and the operator's Action are stored while
\* a run is still in progress.
C29_Witness ==
    /\ fraudCases # <<>>
    /\ Cardinality(DOMAIN threats) = 2
    /\ \E a, b \in DOMAIN actions : actions[a].automated /\ actions[b].details.source = 0
    /\ \E e \in Events : run[e].pc \notin {"idle", "done", "caught"}

\* The statuses of a Threat.
ThreatStatuses == {"analyzing", "blocked", "resolved", "false_positive"}

\* C27: after any sequence of pipeline runs and operator status updates, the
\* status of every stored Threat is one of analyzing, blocked, resolved,
\* false_positive.
C27_StatusInEnum ==
    \A id \in DOMAIN threats : threats[id].status \in ThreatStatuses

\* The FraudCases of a behavior sample (threatAnalysis.ts 90-95: userId).
FraudCasesOf(e) == {id \in DOMAIN fraudCases : fraudCases[id].userId = e}

\* C30: once analyzeUserBehavior has returned, whatever the outcome of its
\* storage writes, the FraudCase and the sim_swap Threat of the sample both
\* exist or neither does.
C30_FraudCaseAndThreatTogether ==
    \A e \in Events :
        (run[e].kind = "user_behavior" /\ Settled(e) = "fulfilled")
        => ((FraudCasesOf(e) # {}) <=> (ThreatsOf(e) # {}))

\* The call_duration_outlier anomalies of the returned result, in order.
ReportedOutliers ==
    SelectSeq(detector.anomalies,
              LAMBDA x : x.anomalyType = "call_duration_outlier")

\* C24: the duration pass reports at most 5 outliers; when more than 5 calls
\* qualify it reports exactly the first 5 in input order.
C24_AtMostFiveOutliers ==
    (detector.pc = "returned" /\ Len(detector.activities) >= MinimumSample)
    => LET qualifying == DurationOutliers(detector.activities)
           reported == ReportedOutliers
           kept == IF Len(qualifying) > 5 THEN 5 ELSE Len(qualifying)
       IN /\ Len(reported) = kept
          /\ \A k \in 1 .. kept : reported[k].source = qualifying[k].id

\* The severity the classes of |z| give a call: critical above 3, high in
\* (2.5, 3], medium otherwise (4 * n * d^2 > 25 * Q is |z| > 2.5).
SeverityOfZ(activities, a) ==
    LET n == DurationCount(activities)
        d == n * a.durationSec - DurationSum(activities)
    IN IF FartherThan(activities, a, 9) THEN "critical"
       ELSE IF 4 * n * d * d > 25 * DurationSpread(activities) THEN "high"
       ELSE "medium"

\* C25: with a positive standard deviation, every reported duration outlier
\* has the severity of its |z|: critical if |z| > 3, high if 2.5 < |z| <= 3,
\* medium otherwise; in a table of 100 rows whose first five calls are the
\* long ones, those five are the reported outliers, each high or critical.
C25_SeverityByZScore ==
    (/\ detector.pc = "returned"
     /\ Len(detector.activities) >= MinimumSample
     /\ DurationSpread(detector.activities) > 0)
    => LET reported == ReportedOutliers
           long == {i \in 1 .. Len(detector.activities) :
                       detector.activities[i].durationSec = LongDuration}
       IN /\ \A k \in 1 .. Len(reported) :
                reported[k].severity =
                    SeverityOfZ(detector.activities,
                                detector.activities[reported[k].source])
          /\ (Len(detector.activities) = 100 /\ long = 1 .. 5
              /\ \A i \in 1 .. 100 : detector.activities[i].activityType = "call"
                                     => detector.activities[i].durationSec > 0)
             => /\ {reported[k].source : k \in 1 .. Len(reported)} = long
                /\ \A k \in 1 .. Len(reported) :
                      reported[k].severity \in {"high", "critical"}

\* C26: when the standard deviation of the call durations is zero (all
\* positive durations equal, with or without calls of duration 0), the
\* duration pass is skipped: the result holds no call_duration_outlier, so no
\* score comes from a division by zero.
C26_ZeroDeviationSkipsPass ==
    (/\ detector.pc = "returned"
     /\ Len(detector.activities) >= MinimumSample
     /\ DurationCount(detector.activities) > 0
     /\ DurationSpread(detector.activities) = 0)
    => Len(ReportedOutliers) = 0

====
